---- MODULE Spec2Model ----
(***************************************************************************)
(* Model of db::LayoutToNetlist (src/db/db/dbLayoutToNetlist.cc): the      *)
(* extraction facade with its named-layer registry and connectivity, the   *)
(* net probe and the hierarchy rebuild.                                    *)
(***************************************************************************)
EXTENDS Integers, Sequences, FiniteSets, TLC

VARIABLES
  m_netlist_extracted,  \* bool m_netlist_extracted
  mp_netlist,           \* std::auto_ptr<db::Netlist> mp_netlist (NoNetlist = null)
  m_net_clusters,       \* db::hier_clusters<db::PolygonRef> m_net_clusters: cell -> clusters
  dss_layers,           \* number of layers created in m_dss (layer ids 1..dss_layers)
  m_named_regions,      \* std::map<std::string, db::DeepLayer>: name -> layer id
  m_name_of_layer,      \* std::map<unsigned int, std::string>: layer id -> name
  m_dlrefs,             \* std::set<db::DeepLayer>: the reference-holding set
  m_conn,               \* db::Connectivity
  layout,               \* the internal layout of m_dss (cells, shapes, instances)
  last,                 \* the last call and how it ended: [op, err, prev]
  pr,                   \* probe_net: its position, locals and result
  bd                    \* build_net / build_all_nets: the call and the target layout it left

vars == <<m_netlist_extracted, mp_netlist, m_net_clusters, dss_layers, m_named_regions,
          m_name_of_layer, m_dlrefs, m_conn, layout, last, pr, bd>>

----------------------------------------------------------------------------
(* Bounds and input domains *)

\* number of deep layers the callers create in the facade runs
MaxLayers == 2

\* names the callers register layers under
LayerNames == {"A", "B"}

\* names of global nets the callers use
GlobalNames == {"GND"}

\* a region without a deep delegate (a flat region); deep regions are their layer id
FlatRegion == 0

NoNetlist == [null |-> TRUE]

Regions == {FlatRegion} \cup (1 .. dss_layers)

----------------------------------------------------------------------------
(* Helpers of the facade *)

is_deep(r) == r # FlatRegion

\* layer_of throws for a region without deep delegate: it is only applied to deep regions
layer_of(r) == r

is_persisted_nocheck(region) == TRUE

is_persisted(region) == layer_of(region) \in DOMAIN m_name_of_layer

name(region) ==
  IF layer_of(region) \in DOMAIN m_name_of_layer
  THEN m_name_of_layer[layer_of(region)]
  ELSE ""

name_of_layer(l) == IF l \in DOMAIN m_name_of_layer THEN m_name_of_layer[l] ELSE ""

\* 0 stands for the null pointer
layer_by_name(n) == IF n \in DOMAIN m_named_regions THEN m_named_regions[n] ELSE 0

layer_by_index(index) ==
  IF index \in DOMAIN m_name_of_layer THEN layer_by_name(m_name_of_layer[index]) ELSE 0

MapPut(f, k, v) == [x \in DOMAIN f \cup {k} |-> IF x = k THEN v ELSE f[x]]

MapErase(f, k) == [x \in DOMAIN f \ {k} |-> f[x]]

----------------------------------------------------------------------------
(* db::Connectivity as the facade uses it *)

EmptyConn == [pairs |-> {}, global_nets |-> <<>>, global |-> {}]

\* Connectivity::connect (la, lb): symmetric
conn_connect(c, la, lb) == [c EXCEPT !.pairs = @ \cup {<<la, lb>>, <<lb, la>>}]

GlobalIndex(c, gn) == CHOOSE i \in 1 .. Len(c.global_nets) : c.global_nets[i] = gn

GlobalKnown(c, gn) == \E i \in 1 .. Len(c.global_nets) : c.global_nets[i] = gn

\* Connectivity::global_net_id (gn): the id of the name, allocated if new (ids from 0)
conn_global_net_id_alloc(c, gn) ==
  IF GlobalKnown(c, gn) THEN c ELSE [c EXCEPT !.global_nets = Append(@, gn)]

conn_global_net_id(c, gn) == GlobalIndex(conn_global_net_id_alloc(c, gn), gn) - 1

\* Connectivity::connect_global (l, gn)
conn_connect_global(c, l, gn) ==
  [conn_global_net_id_alloc(c, gn) EXCEPT !.global = @ \cup {<<l, conn_global_net_id(c, gn)>>}]

\* the layers the connectivity knows
ConnLayers(c) == {p[1] : p \in c.pairs} \cup {g[1] : g \in c.global}

----------------------------------------------------------------------------
(* The calls of the facade *)

\* prev is the local prev_name of register_layer ("" when the region had no name)
Result(op, err) == [op |-> op, err |-> err, prev |-> ""]

\* what the registry and connectivity calls leave alone
hvars == <<m_net_clusters, layout, pr, bd>>

Throw(op, err) ==
  /\ last' = Result(op, err)
  /\ UNCHANGED <<m_netlist_extracted, mp_netlist, m_net_clusters, dss_layers, m_named_regions,
                 m_name_of_layer, m_dlrefs, m_conn, layout, pr, bd>>

\* the registry after register_layer (region, n) got past its checks
RegisteredKeepOld(region, n) ==
  <<MapPut(m_named_regions, n, layer_of(region)),
    MapPut(m_name_of_layer, layer_of(region), n)>>

Registered(region, n) ==
  <<MapPut(IF is_persisted(region)
           THEN MapErase(m_named_regions, name(region))
           ELSE m_named_regions, n, layer_of(region)),
    MapPut(m_name_of_layer, layer_of(region), n)>>

register_layer(region, n) ==
  IF n \in DOMAIN m_named_regions THEN Throw("register_layer", "DuplicateName")
  ELSE IF ~is_deep(region) THEN Throw("register_layer", "NotDeep")
  ELSE /\ m_named_regions' = Registered(region, n)[1]
       /\ m_name_of_layer' = Registered(region, n)[2]
       /\ last' = [Result("register_layer", "none") EXCEPT !.prev = name(region)]
       /\ UNCHANGED <<m_netlist_extracted, mp_netlist, dss_layers, m_dlrefs, m_conn, hvars>>

\* make_layer, make_layer (layer_index), make_text_layer, make_polygon_layer: they
\* differ in the shape flags of the iterator only
MakeKinds == {"make_layer", "make_layer_index", "make_text_layer", "make_polygon_layer"}

make_layer(kind, n) ==
  /\ dss_layers < MaxLayers
  /\ IF n # "" /\ n \in DOMAIN m_named_regions
     THEN \* register_layer throws, the auto_ptr releases the new region
          Throw(kind, "DuplicateName")
     ELSE /\ dss_layers' = dss_layers + 1
          /\ IF n # ""
             THEN /\ m_named_regions' = MapPut(m_named_regions, n, dss_layers + 1)
                  /\ m_name_of_layer' = MapPut(m_name_of_layer, dss_layers + 1, n)
             ELSE UNCHANGED <<m_named_regions, m_name_of_layer>>
          /\ last' = Result(kind, "none")
          /\ UNCHANGED <<m_netlist_extracted, mp_netlist, m_dlrefs, m_conn, hvars>>

connect(l) ==
  IF m_netlist_extracted THEN Throw("connect", "AlreadyExtracted")
  ELSE IF ~is_deep(l) THEN Throw("connect", "NotDeep")
  ELSE IF ~is_persisted(l) THEN Throw("connect", "NotPersisted")
  ELSE /\ m_dlrefs' = m_dlrefs \cup {layer_of(l)}
       /\ m_conn' = conn_connect(m_conn, layer_of(l), layer_of(l))
       /\ last' = Result("connect", "none")
       /\ UNCHANGED <<m_netlist_extracted, mp_netlist, dss_layers, m_named_regions,
                      m_name_of_layer, hvars>>

connect2(a, b) ==
  IF m_netlist_extracted THEN Throw("connect2", "AlreadyExtracted")
  ELSE IF ~is_deep(a) THEN Throw("connect2", "NotDeep")
  ELSE IF ~is_deep(b) THEN Throw("connect2", "NotDeep")
  ELSE IF ~is_persisted(a) THEN Throw("connect2", "NotPersisted")
  ELSE IF ~is_persisted(b) THEN Throw("connect2", "NotPersisted")
  ELSE /\ m_dlrefs' = m_dlrefs \cup {layer_of(a), layer_of(b)}
       /\ m_conn' = conn_connect(m_conn, layer_of(a), layer_of(b))
       /\ last' = Result("connect2", "none")
       /\ UNCHANGED <<m_netlist_extracted, mp_netlist, dss_layers, m_named_regions,
                      m_name_of_layer, hvars>>

connect_global(l, gn) ==
  IF m_netlist_extracted THEN Throw("connect_global", "AlreadyExtracted")
  ELSE IF ~is_deep(l) THEN Throw("connect_global", "NotDeep")
  ELSE IF ~is_persisted(l) THEN Throw("connect_global", "NotPersisted")
  ELSE /\ m_dlrefs' = m_dlrefs \cup {layer_of(l)}
       /\ m_conn' = conn_connect_global(m_conn, layer_of(l), gn)
       /\ last' = Result("connect_global", "none")
       /\ UNCHANGED <<m_netlist_extracted, mp_netlist, dss_layers, m_named_regions,
                      m_name_of_layer, hvars>>

global_net_id(gn) ==
  /\ m_conn' = conn_global_net_id_alloc(m_conn, gn)
  /\ last' = Result("global_net_id", "none")
  /\ UNCHANGED <<m_netlist_extracted, mp_netlist, dss_layers, m_named_regions,
                 m_name_of_layer, m_dlrefs, hvars>>

----------------------------------------------------------------------------
(* Geometry kernel: one-dimensional boxes and complex transformations      *)
(* x |-> m * r * x + d (r = -1 is the mirror, m the magnification)         *)

Trans(r, d, m) == [r |-> r, d |-> d, m |-> m]

UnitTrans == Trans(1, 0, 1)

\* ICplxTrans (mag)
MagTrans(m) == Trans(1, 0, m)

ApplyT(t, x) == t.m * t.r * x + t.d

\* t1 * t2: t2 is applied first
MulT(t1, t2) == Trans(t1.r * t2.r, t1.m * t1.r * t2.d + t1.d, t1.m * t2.m)

\* inverse of a transformation without magnification
InvT(t) == Trans(t.r, (0 - t.r) * t.d, 1)

MinI(a, b) == IF a <= b THEN a ELSE b

MaxI(a, b) == IF a >= b THEN a ELSE b

Box(lo, hi) == [lo |-> lo, hi |-> hi]

TransBox(t, b) ==
  Box(MinI(ApplyT(t, b.lo), ApplyT(t, b.hi)), MaxI(ApplyT(t, b.lo), ApplyT(t, b.hi)))

\* boxes touch when they share at least one point
Touches(a, b) == a.lo <= b.hi /\ b.lo <= a.hi

Shape(layer, lo, hi) == [layer |-> layer, lo |-> lo, hi |-> hi]

TransShape(t, s) ==
  Shape(s.layer, MinI(ApplyT(t, s.lo), ApplyT(t, s.hi)), MaxI(ApplyT(t, s.lo), ApplyT(t, s.hi)))

TransShapes(t, S) == {TransShape(t, s) : s \in S}

----------------------------------------------------------------------------
(* The internal layout of the deep-layer store: cells 1 .. ncells (a child *)
(* has a larger id than its parents), shapes [cell, layer, lo, hi],        *)
(* instances [id, parent, cell, t], the device abstract cells and the dbu  *)

LocalShapes(L, c) == {Shape(s.layer, s.lo, s.hi) : s \in {x \in L.shapes : x.cell = c}}

InstsOf(L, c) == {i \in L.insts : i.parent = c}

InstById(L, id) == CHOOSE i \in L.insts : i.id = id

----------------------------------------------------------------------------
(* Hierarchical clusterer (db::hier_clusters) and netlist assembly         *)
(* (db::NetlistExtractor): the collaborators extract_netlist calls         *)

ClusterIds(cl, cell) == {k.id : k \in cl[cell]}

ClusterById(cl, cell, cid) == CHOOSE k \in cl[cell] : k.id = cid

\* all shapes of a cluster, the ones of its connected child clusters included,
\* in the coordinates of the cluster's cell
RECURSIVE FlatShapes(_, _, _)
FlatShapes(cl, cell, cid) ==
  LET k == ClusterById(cl, cell, cid)
  IN  k.shapes \cup UNION {TransShapes(c.t, FlatShapes(cl, c.cell, c.cid)) : c \in k.conns}

\* the elements the union-find of a cell works on: its shapes on connected layers
\* (inst = 0) and one pseudo-element per cluster of each child instance
Elements(L, conn, cl, c) ==
  {[inst |-> 0, cell |-> c, cid |-> 0, t |-> UnitTrans, fp |-> {s}] :
      s \in {x \in LocalShapes(L, c) : x.layer \in ConnLayers(conn)}}
  \cup
  UNION {{[inst |-> i.id, cell |-> i.cell, cid |-> k, t |-> i.t,
           fp |-> TransShapes(i.t, FlatShapes(cl, i.cell, k))] : k \in ClusterIds(cl, i.cell)} :
         i \in InstsOf(L, c)}

Interacts(conn, e1, e2) ==
  /\ e1 # e2
  /\ ~(e1.inst # 0 /\ e1.inst = e2.inst)
  /\ \E f1 \in e1.fp, f2 \in e2.fp : <<f1.layer, f2.layer>> \in conn.pairs /\ Touches(f1, f2)

RECURSIVE Component(_, _, _)
Component(conn, E, S) ==
  LET N == S \cup {e \in E : \E x \in S : Interacts(conn, x, e)}
  IN  IF N = S THEN S ELSE Component(conn, E, N)

\* the roots of the union-find that become local clusters: those holding a shape of
\* the cell or joining several pseudo-elements
Components(L, conn, cl, c) ==
  LET E == Elements(L, conn, cl, c)
  IN  {K \in {Component(conn, E, {e}) : e \in E} :
         (\E e \in K : e.inst = 0) \/ Cardinality(K) > 1}

Numbering(S) == CHOOSE f \in [1 .. Cardinality(S) -> S] : \A i, j \in 1 .. Cardinality(S) : i # j => f[i] # f[j]

ClustersOfCell(L, conn, cl, c) ==
  LET Ks == Components(L, conn, cl, c)
      num == Numbering(Ks)
  IN  {[id |-> n,
        shapes |-> UNION {e.fp : e \in {x \in num[n] : x.inst = 0}},
        conns |-> {[inst |-> e.inst, cell |-> e.cell, cid |-> e.cid, t |-> e.t] :
                     e \in {x \in num[n] : x.inst # 0}}] : n \in 1 .. Cardinality(Ks)}

\* bottom-up over the cells c, c - 1, .. 1
RECURSIVE BuildClusters(_, _, _, _)
BuildClusters(L, conn, c, cl) ==
  IF c = 0 THEN cl
  ELSE BuildClusters(L, conn, c - 1, [x \in 1 .. L.ncells |-> IF x = c THEN ClustersOfCell(L, conn, cl, c) ELSE cl[x]])

HierClusters(L, conn) == BuildClusters(L, conn, L.ncells, [x \in 1 .. L.ncells |-> {}])

NoClusters(L) == [x \in 1 .. L.ncells |-> {}]

\* a cluster is carried upward when a cluster of a parent cell connects to it
IsConnectedUp(cl, cell, cid) ==
  \E c \in DOMAIN cl : \E k \in cl[c] : \E x \in k.conns : x.cell = cell /\ x.cid = cid

PinnedClusters(cl, cell) == {k \in ClusterIds(cl, cell) : IsConnectedUp(cl, cell, k)}

\* pin ids are dense per circuit
PinIdOf(cl, cell, cid) == Cardinality({k \in PinnedClusters(cl, cell) : k < cid})

\* the parent cluster that connects to cluster cid of instance i, 0 if there is none
ParentClusterOf(cl, i, cid) ==
  LET P == {k \in cl[i.parent] : \E x \in k.conns : x.inst = i.id /\ x.cid = cid}
  IN  IF P = {} THEN 0 ELSE (CHOOSE k \in P : TRUE).id

\* DCplxTrans of an instance: dbu_trans * t * dbu_trans_inv (micron units times 1000)
DTransOf(dbu, t) == Trans(t.r, dbu * t.d, 1)

ExtractNets(L, cl) ==
  LET circuits == {c \in 1 .. L.ncells : cl[c] # {} /\ c \notin L.devices}
  IN  [circuits |-> circuits,
       device_abstracts |-> {c \in L.devices : cl[c] # {}},
       nets |-> UNION {{[cell |-> c, cid |-> k,
                         pins |-> IF k \in PinnedClusters(cl, c) THEN <<PinIdOf(cl, c, k)>> ELSE <<>>] :
                           k \in ClusterIds(cl, c)} : c \in circuits},
       subcircuits |-> {[id |-> i.id, parent |-> i.parent, ref |-> i.cell,
                         trans |-> DTransOf(L.dbu, i.t),
                         pinnet |-> [p \in {PinIdOf(cl, i.cell, k) : k \in PinnedClusters(cl, i.cell)} |->
                                       ParentClusterOf(cl, i,
                                         CHOOSE k \in PinnedClusters(cl, i.cell) : PinIdOf(cl, i.cell, k) = p)]] :
                          i \in {x \in L.insts : x.cell \in circuits /\ x.parent \in circuits}}]

EmptyNetlist == [circuits |-> {}, device_abstracts |-> {}, nets |-> {}, subcircuits |-> {}]

----------------------------------------------------------------------------
(* Extraction *)

EmptyLayout == [ncells |-> 1, top |-> 1, shapes |-> {}, insts |-> {}, devices |-> {}, dbu |-> 1]

PrIdle == [pc |-> "idle", layer |-> 0, point |-> 0, inst_path |-> <<>>, cell_indexes |-> <<>>,
           circuit |-> 0, net |-> 0, hit |-> [cell |-> 0, cid |-> 0, path |-> <<>>],
           result |-> [cell |-> 0, cid |-> 0]]

BdIdle == [op |-> "none", net |-> [cell |-> 0, cid |-> 0], a |-> <<>>, cells |-> <<>>,
           cmap |-> {}, log |-> <<>>]

\* the external device extractor: it makes the netlist, the device abstract cells it
\* adds are part of the layout the run starts from
extract_devices ==
  IF m_netlist_extracted THEN Throw("extract_devices", "AlreadyExtracted")
  ELSE /\ mp_netlist' = IF mp_netlist = NoNetlist THEN EmptyNetlist ELSE mp_netlist
       /\ last' = Result("extract_devices", "none")
       /\ UNCHANGED <<m_netlist_extracted, m_net_clusters, dss_layers, m_named_regions,
                      m_name_of_layer, m_dlrefs, m_conn, layout, pr, bd>>

extract_netlist_resets ==
  /\ m_net_clusters' = HierClusters(layout, m_conn)
  /\ mp_netlist' = ExtractNets(layout, HierClusters(layout, m_conn))
  /\ m_netlist_extracted' = ~m_netlist_extracted
  /\ last' = Result("extract_netlist", "none")
  /\ UNCHANGED <<dss_layers, m_named_regions, m_name_of_layer, m_dlrefs, m_conn,
                 layout, pr, bd>>

extract_netlist ==
  IF m_netlist_extracted THEN Throw("extract_netlist", "AlreadyExtracted")
  ELSE /\ m_net_clusters' = HierClusters(layout, m_conn)
       /\ mp_netlist' = ExtractNets(layout, HierClusters(layout, m_conn))
       /\ m_netlist_extracted' = TRUE
       /\ last' = Result("extract_netlist", "none")
       /\ UNCHANGED <<dss_layers, m_named_regions, m_name_of_layer, m_dlrefs, m_conn,
                      layout, pr, bd>>

set_netlist_extracted ==
  /\ m_netlist_extracted' = TRUE
  /\ last' = Result("set_netlist_extracted", "none")
  /\ UNCHANGED <<mp_netlist, m_net_clusters, dss_layers, m_named_regions, m_name_of_layer,
                 m_dlrefs, m_conn, layout, pr, bd>>

make_netlist ==
  /\ mp_netlist' = IF mp_netlist = NoNetlist THEN EmptyNetlist ELSE mp_netlist
  /\ last' = Result("make_netlist", "none")
  /\ UNCHANGED <<m_netlist_extracted, m_net_clusters, dss_layers, m_named_regions,
                 m_name_of_layer, m_dlrefs, m_conn, layout, pr, bd>>

----------------------------------------------------------------------------
(* Net probing *)

\* the hull of all shapes in and below a cell, {} for an empty cell
RECURSIVE CellBoxes(_, _)
CellBoxes(L, c) ==
  {Box(s.lo, s.hi) : s \in LocalShapes(L, c)}
  \cup UNION {{TransBox(i.t, b) : b \in CellBoxes(L, i.cell)} : i \in InstsOf(L, c)}

Hull(B) == Box(CHOOSE x \in {b.lo : b \in B} : \A y \in {b.lo : b \in B} : x <= y,
               CHOOSE x \in {b.hi : b \in B} : \A y \in {b.hi : b \in B} : x >= y)

BBoxTouches(B, box) == B # {} /\ Touches(Hull(B), box)

\* local_cluster::interacts (test_cluster, trans, conn): a shape of lc touches the
\* transformed shape of the test cluster on a layer connected to its layer
lc_interacts(lc, test, trans, conn) ==
  \E s \in lc.shapes :
     /\ <<s.layer, test.layer>> \in conn.pairs
     /\ Touches(Box(s.lo, s.hi), TransBox(trans, test.box))

\* search_net: the possible returns, [cid, path] with path the reversed instance
\* path (rev_inst_path); no element stands for the return of 0. The box trees give
\* no order, so any interacting cluster and any instance with a hit can come first.
RECURSIVE search_net(_, _, _, _, _, _)
search_net(L, cl, conn, trans, cell, test) ==
  LET local_box == TransBox(trans, test.box)
      hits == {lc \in cl[cell] :
                 /\ BBoxTouches({Box(s.lo, s.hi) : s \in lc.shapes}, local_box)
                 /\ lc_interacts(lc, test, trans, conn)}
  IN  IF hits # {}
      THEN {[cid |-> lc.id, path |-> <<>>] : lc \in hits}
      ELSE UNION {{[cid |-> r.cid, path |-> Append(r.path, i.id)] :
                     r \in search_net(L, cl, conn, MulT(InvT(i.t), trans), i.cell, test)} :
                  i \in {x \in InstsOf(L, cell) :
                           BBoxTouches({TransBox(x.t, b) : b \in CellBoxes(L, x.cell)}, local_box)}}

RECURSIVE Reverse(_)
Reverse(q) == IF q = <<>> THEN <<>> ELSE Append(Reverse(Tail(q)), Head(q))

PopBack(q) == SubSeq(q, 1, Len(q) - 1)

Back(q) == q[Len(q)]

NoNet == [cell |-> 0, cid |-> 0]

NetsOf(nl, cell, cid) == {n \in nl.nets : n.cell = cell /\ n.cid = cid}

\* Circuit::net_by_cluster_id
net_by_cluster_id(nl, cell, cid) == CHOOSE n \in NetsOf(nl, cell, cid) : TRUE

pin_count(nl, cell, cid) == Len(net_by_cluster_id(nl, cell, cid).pins)

\* the test cluster: the box point +- 1 on the layer of the region
TestCluster(layer, point) == [layer |-> layer, box |-> Box(point - 1, point + 1)]

PrDone(layer, point, hit, result) ==
  [PrIdle EXCEPT !.pc = "done", !.layer = layer, !.point = point, !.hit = hit, !.result = result]

\* probe_net up to the loop that follows the path up
probe_net(of_region, point) ==
  /\ pr.pc \in {"idle", "done"}
  /\ IF ~m_netlist_extracted THEN Throw("probe_net", "NotExtracted")
     ELSE IF mp_netlist = NoNetlist THEN Throw("probe_net", "Assertion")
     ELSE IF ~is_deep(of_region) THEN Throw("probe_net", "NotDeep")
     ELSE LET layer == layer_of(of_region)
              found == search_net(layout, m_net_clusters, m_conn, UnitTrans, layout.top,
                                  TestCluster(layer, point))
          IN  /\ last' = Result("probe_net", "none")
              /\ UNCHANGED <<m_netlist_extracted, mp_netlist, m_net_clusters, dss_layers,
                             m_named_regions, m_name_of_layer, m_dlrefs, m_conn, layout, bd>>
              /\ IF found = {}
                 THEN pr' = PrDone(layer, point, PrIdle.hit, NoNet)
                 ELSE \E f \in found :
                        LET inst_path == Reverse(f.path)
                            cell_indexes == <<layout.top>> \o
                                            [k \in 1 .. Len(inst_path) |-> InstById(layout, inst_path[k]).cell]
                            leaf == Back(cell_indexes)
                            hit == [cell |-> leaf, cid |-> f.cid, path |-> inst_path]
                        IN  IF leaf \notin mp_netlist.circuits
                            THEN pr' = PrDone(layer, point, hit, NoNet)
                            ELSE IF NetsOf(mp_netlist, leaf, f.cid) = {}
                            THEN pr' = PrDone(layer, point, hit, NoNet)
                            ELSE pr' = [pc |-> "climb", layer |-> layer, point |-> point,
                                        inst_path |-> inst_path, cell_indexes |-> cell_indexes,
                                        circuit |-> leaf, net |-> f.cid, hit |-> hit,
                                        result |-> NoNet]

\* the references of the circuit that match the last path element; the loop over
\* the references ends at the first of them that carries a net on the pin
UpperRefsAnyTrans(nl, circuit, dtrans, parent_cell, pin) ==
  {r \in nl.subcircuits : r.ref = circuit /\ r.parent = parent_cell /\ r.pinnet[pin] # 0}

UpperRefs(nl, circuit, dtrans, parent_cell, pin) ==
  {r \in nl.subcircuits :
     /\ r.ref = circuit
     /\ r.trans = dtrans
     /\ r.parent \in nl.circuits
     /\ r.parent = parent_cell
     /\ r.pinnet[pin] # 0}

\* one round of the loop: while (! inst_path.empty () && net->pin_count () > 0)
probe_climb ==
  /\ pr.pc = "climb"
  /\ pr.inst_path # <<>>
  /\ pin_count(mp_netlist, pr.circuit, pr.net) > 0
  /\ LET cell_indexes == PopBack(pr.cell_indexes)
         pin == Head(net_by_cluster_id(mp_netlist, pr.circuit, pr.net).pins)
         dtrans == DTransOf(layout.dbu, InstById(layout, Back(pr.inst_path)).t)
         upper == UpperRefs(mp_netlist, pr.circuit, dtrans, Back(cell_indexes), pin)
     IN  IF upper # {}
         THEN \E r \in upper :
                pr' = [pr EXCEPT !.cell_indexes = cell_indexes, !.circuit = r.parent,
                                 !.net = r.pinnet[pin], !.inst_path = PopBack(pr.inst_path)]
         ELSE pr' = [pr EXCEPT !.pc = "done", !.cell_indexes = cell_indexes,
                               !.result = [cell |-> pr.circuit, cid |-> pr.net]]
  /\ UNCHANGED <<m_netlist_extracted, mp_netlist, m_net_clusters, dss_layers, m_named_regions,
                 m_name_of_layer, m_dlrefs, m_conn, layout, last, bd>>

\* the loop condition fails: return net
probe_return ==
  /\ pr.pc = "climb"
  /\ ~(pr.inst_path # <<>> /\ pin_count(mp_netlist, pr.circuit, pr.net) > 0)
  /\ pr' = [pr EXCEPT !.pc = "done", !.result = [cell |-> pr.circuit, cid |-> pr.net]]
  /\ UNCHANGED <<m_netlist_extracted, mp_netlist, m_net_clusters, dss_layers, m_named_regions,
                 m_name_of_layer, m_dlrefs, m_conn, layout, last, bd>>

----------------------------------------------------------------------------
(* Shape delivery *)

\* a null prefix (const char * 0); a prefix is a sequence of name parts
NullPrefix == <<>>

\* a null region in the layer map
NullRegion == -1

\* max () of cell_index_type: "no cell" in the cell map
NoCell == 0

\* ! nl || nl->circuit_by_cell_index (cci) || nl->device_abstract_by_cell_index (cci)
IsCircuitOrDevice(nl, cci) ==
  nl = NoNetlist \/ cci \in nl.circuits \/ cci \in nl.device_abstracts

\* recursive_cluster_shape_iterator: all shapes of the cluster on the layer, each
\* with the transformation into the initial cell ci applied after t
RECURSIVE RecursiveShapes(_, _, _, _, _)
RecursiveShapes(cl, cell, cid, layer_id, t) ==
  LET k == ClusterById(cl, cell, cid)
  IN  TransShapes(t, {s \in k.shapes : s.layer = layer_id})
      \cup UNION {RecursiveShapes(cl, c.cell, c.cid, layer_id, MulT(t, c.t)) : c \in k.conns}

deliver_shapes_of_net_recursive(nl, cl, ci, cid, layer_id, tr) ==
  RecursiveShapes(cl, ci, cid, layer_id, tr)

\* the iterator stops at shapes: at the first shape of a circuit or device cell
\* other than ci, skip_cell leaves the cell with everything below it; a cell
\* without shapes of the cluster on this layer is passed through
RECURSIVE NonRecursiveShapes(_, _, _, _, _, _, _)
NonRecursiveShapes(nl, cl, ci, cell, cid, layer_id, t) ==
  LET k == ClusterById(cl, cell, cid)
      own == {s \in k.shapes : s.layer = layer_id}
  IN  IF cell # ci /\ own # {} /\ IsCircuitOrDevice(nl, cell)
      THEN {}
      ELSE TransShapes(t, own)
           \cup UNION {NonRecursiveShapes(nl, cl, ci, c.cell, c.cid, layer_id, MulT(t, c.t)) :
                         c \in k.conns}

deliver_shapes_of_net_nonrecursive(nl, cl, ci, cid, layer_id, tr) ==
  NonRecursiveShapes(nl, cl, ci, ci, cid, layer_id, tr)

\* shapes_of_net (net, of_layer, recursive)
shapes_of_net(net, of_layer, recursive) ==
  IF recursive
  THEN deliver_shapes_of_net_recursive(mp_netlist, m_net_clusters, net.cell, net.cid,
                                       layer_of(of_layer), UnitTrans)
  ELSE deliver_shapes_of_net_nonrecursive(mp_netlist, m_net_clusters, net.cell, net.cid,
                                          layer_of(of_layer), UnitTrans)

----------------------------------------------------------------------------
(* Hierarchy rebuild: the target layout is st.cells, a sequence of cells      *)
(* [name, shapes, insts]; st.cmap is the cell map (ci, cid) -> target cell    *)

CellName(ci) == <<"CELL", ToString(ci)>>

\* Net::expanded_name
NetName(ci, cid) == <<"NET", ToString(ci), ToString(cid)>>

NewCell(nm) == [name |-> nm, shapes |-> {}, insts |-> {}]

AddCell(st, nm) == [st EXCEPT !.cells = Append(@, NewCell(nm))]

InsertInstAtOrigin(st, tc, inst) ==
  [st EXCEPT !.cells[tc].insts = @ \cup {[cell |-> inst.cell, t |-> UnitTrans]}]

InsertInst(st, tc, inst) == [st EXCEPT !.cells[tc].insts = @ \cup {inst}]

InsertShapes(st, tc, shapes) == [st EXCEPT !.cells[tc].shapes = @ \cup shapes]

\* CellInstArray::transform_into (ICplxTrans (mag)): tr_mag * t * tr_mag.inverted (),
\* the displacement is scaled, rotation and magnification of t stay
TransformInto(t, tr_mag) == Trans(t.r, tr_mag.m * t.d, t.m)

tr_unchanged(tr) == tr

\* tr_wo_mag = tr * ICplxTrans (1.0 / tr.mag ())
tr_without_mag(tr) == Trans(tr.r, tr.d, 1)

\* the shapes the loop over lmap delivers into the target cell
DeliveredShapes(ci, cid, lmap, tr) ==
  UNION {{[layer |-> l.tl, lo |-> s.lo, hi |-> s.hi] :
            s \in deliver_shapes_of_net_nonrecursive(mp_netlist, m_net_clusters, ci, cid,
                                                     layer_of(l.region), tr)} :
         l \in {x \in lmap : x.region # NullRegion}}

\* bool any_connections = circuit_cell_name_prefix && ! connections.empty ()
any_connections(k, a) == a.cprefix # NullPrefix /\ k.conns # {}

\* the prefix of the cell made for a connection to cell subci
NamePrefix(subci, a) ==
  IF subci \in mp_netlist.device_abstracts THEN a.dprefix ELSE a.cprefix

CmapKeyPerCell(c) == [ci |-> c.cell, cid |-> 0]

\* the key of the cell map: std::make_pair (subci, subcid)
CmapKey(c) == [ci |-> c.cell, cid |-> c.cid]

CmapFind(st, key) == {m \in st.cmap : m.key = key}

RECURSIVE build_net_rec(_, _, _, _, _, _, _)
RECURSIVE build_connections(_, _, _, _, _, _)

\* build_net_rec (ci, cid, target, tc, lmap, net, net_cell_name_prefix,
\*                circuit_cell_name_prefix, device_cell_name_prefix, cmap, tr)
build_net_rec(st, ci, cid, tc, a, net_cell_name_prefix, tr) ==
  LET k == ClusterById(m_net_clusters, ci, cid)
      consider_cell ==
        \E l \in a.lmap :
           /\ l.region # NullRegion
           /\ deliver_shapes_of_net_nonrecursive(mp_netlist, m_net_clusters, ci, cid,
                                                 layer_of(l.region), tr) # {}
      net_cell == Len(st.cells) + 1
      st1 == IF net_cell_name_prefix # NullPrefix
             THEN InsertInst(AddCell(st, net_cell_name_prefix \o NetName(ci, cid)), tc,
                             [cell |-> net_cell, t |-> UnitTrans])
             ELSE st
      target_cell == IF net_cell_name_prefix # NullPrefix THEN net_cell ELSE tc
      st2 == InsertShapes(st1, target_cell, DeliveredShapes(ci, cid, a.lmap, tr))
  IN  IF net_cell_name_prefix # NullPrefix /\ ~any_connections(k, a) /\ ~consider_cell
      THEN st
      ELSE IF a.cprefix = NullPrefix /\ a.dprefix = NullPrefix
      THEN st2
      ELSE build_connections(st2, k.conns, target_cell, a, tr_without_mag(tr), MagTrans(tr.m))

\* the loop over the connections of the cluster
build_connections(st, conns, target_cell, a, tr_wo_mag, tr_mag) ==
  IF conns = {} THEN st
  ELSE LET c == CHOOSE x \in conns : TRUE
           key == CmapKey(c)
           target_ci == Len(st.cells) + 1
           stA == IF CmapFind(st, key) # {} THEN st
                  ELSE IF NamePrefix(c.cell, a) # NullPrefix
                  THEN build_net_rec(
                         [AddCell(st, NamePrefix(c.cell, a) \o CellName(c.cell))
                            EXCEPT !.cmap = @ \cup {[key |-> key, tci |-> target_ci]}],
                         c.cell, c.cid, target_ci, a, NullPrefix, tr_mag)
                  ELSE [st EXCEPT !.cmap = @ \cup {[key |-> key, tci |-> NoCell]}]
           cm == CHOOSE m \in stA.cmap : m.key = key
           stB == IF cm.tci # NoCell
                  THEN InsertInst(stA, target_cell,
                                  [cell |-> cm.tci, t |-> TransformInto(MulT(tr_wo_mag, c.t), tr_mag)])
                  ELSE stA
       IN  build_connections(stB, conns \ {c}, target_cell, a, tr_wo_mag, tr_mag)

\* the target layout flattened below cell c
RECURSIVE Flatten(_, _, _)
Flatten(cells, c, t) ==
  TransShapes(t, cells[c].shapes)
  \cup UNION {Flatten(cells, i.cell, MulT(t, i.t)) : i \in cells[c].insts}

RECURSIVE SortedSeq(_)
SortedSeq(S) ==
  IF S = {} THEN <<>>
  ELSE LET m == CHOOSE x \in S : \A y \in S : x <= y
       IN  <<m>> \o SortedSeq(S \ {m})

\* the target before the call: build_net gets one target cell; build_all_nets
\* gets the cells of the cell mapping, with the instances of the original
\* hierarchy when every cell is mapped; cmapping is source cell -> target cell
TargetOne == [cells |-> <<NewCell(<<"TARGET">>)>>, cmap |-> {}, log |-> <<>>]

TargetAll(L, mag) ==
  [cells |-> [k \in 1 .. L.ncells |->
                [name |-> <<"ORIG", ToString(L.ncells + 1 - k)>>, shapes |-> {},
                 insts |-> {[cell |-> L.ncells + 1 - i.cell, t |-> Trans(i.t.r, mag * i.t.d, 1)] :
                              i \in {x \in InstsOf(L, L.ncells + 1 - k) : x.cell \notin L.devices}}]],
   cmap |-> {}, log |-> <<>>]

CellMapping(kind, L) ==
  IF kind = "all"
  THEN [c \in (1 .. L.ncells) \ L.devices |-> L.ncells + 1 - c]
  ELSE [c \in {L.top} |-> 1]

\* one call of build_net_rec from build_all_nets, noted in st.log with the number
\* of target cells before the call
TopCall(st, ci, cid, tc, a, net_cell_name_prefix, tr, via, sc) ==
  [build_net_rec(st, ci, cid, tc, a, net_cell_name_prefix, tr)
     EXCEPT !.log = Append(@, [ci |-> ci, cid |-> cid, tc |-> tc, via |-> via, sc |-> sc, tr |-> tr,
                               nc |-> Len(st.cells), ncn |-> net_cell_name_prefix])]

\* Circuit::begin_parents () == end_parents ()
is_top_circuit(nl, c) == ~\E sc \in nl.subcircuits : sc.ref = c

skips_local_net_always(nl, c, cid, a) == FALSE

\* circuit_cell_name_prefix && ! is_top_circuit && n->pin_count () > 0
skips_local_net(nl, c, cid, a) ==
  a.cprefix # NullPrefix /\ ~is_top_circuit(nl, c) /\ pin_count(nl, c, cid) > 0

\* the loop over the nets of circuit c
RECURSIVE nets_loop(_, _, _, _, _, _)
nets_loop(st, c, cids, target_ci, a, mag) ==
  IF cids = <<>> THEN st
  ELSE nets_loop(IF skips_local_net(mp_netlist, c, Head(cids), a) THEN st
                 ELSE TopCall(st, c, Head(cids), target_ci, a, a.nprefix, MagTrans(mag), "net", 0),
                 c, Tail(cids), target_ci, a, mag)

FirstPinsOf(nl, c) == {Head(n.pins) : n \in {x \in nl.nets : x.cell = c /\ x.pins # <<>>}}

\* the pins of circuit c: begin_pins () .. end_pins ()
PinsOf(nl, c) == UNION {{n.pins[i] : i \in 1 .. Len(n.pins)} : n \in {x \in nl.nets : x.cell = c}}

\* Circuit::net_for_pin: the nets of the circuit on the pin ({} for none)
net_for_pin(nl, c, p) == {n \in nl.nets : n.cell = c /\ \E i \in 1 .. Len(n.pins) : n.pins[i] = p}

\* CplxTrans (dbu).inverted () * subcircuit.trans () * CplxTrans (dbu)
InTargetDbu(S, dbu) == Trans(S.r, S.d \div dbu, 1)

SubcircuitName(sc) == <<"SC", ToString(sc.id), ":">>

\* the loop over the pins of a subcircuit's circuit
RECURSIVE pins_loop(_, _, _, _, _, _)
pins_loop(st, sc, pins, target_ci, a, mag) ==
  IF pins = <<>> THEN st
  ELSE LET p == Head(pins)
           ns == net_for_pin(mp_netlist, sc.ref, p)
           n == CHOOSE x \in ns : TRUE
           tr == MulT(MagTrans(mag), InTargetDbu(sc.trans, a.tdbu))
           ncn == IF a.nprefix # NullPrefix THEN a.nprefix \o SubcircuitName(sc) ELSE a.nprefix
       IN  pins_loop(IF sc.pinnet[p] = 0 /\ ns # {}
                     THEN TopCall(st, n.cell, n.cid, target_ci, a, ncn, tr, "pin", sc.id)
                     ELSE st,
                     sc, Tail(pins), target_ci, a, mag)

SubcircuitById(nl, id) == CHOOSE sc \in nl.subcircuits : sc.id = id

RECURSIVE subcircuits_loop(_, _, _, _, _)
subcircuits_loop(st, scs, target_ci, a, mag) ==
  IF scs = <<>> THEN st
  ELSE LET sc == SubcircuitById(mp_netlist, Head(scs))
       IN  subcircuits_loop(pins_loop(st, sc, SortedSeq(PinsOf(mp_netlist, sc.ref)), target_ci, a, mag),
                            Tail(scs), target_ci, a, mag)

\* the loop over the circuits of the netlist
RECURSIVE circuits_loop(_, _, _, _, _)
circuits_loop(st, cs, cmapping, a, mag) ==
  IF cs = <<>> THEN st
  ELSE LET c == Head(cs)
           target_ci == cmapping[c]
           st1 == nets_loop(st, c, SortedSeq({n.cid : n \in {x \in mp_netlist.nets : x.cell = c}}),
                            target_ci, a, mag)
           st2 == IF a.cprefix # NullPrefix
                  THEN subcircuits_loop(st1, SortedSeq({sc.id : sc \in {x \in mp_netlist.subcircuits : x.parent = c}}),
                                        target_ci, a, mag)
                  ELSE st1
       IN  circuits_loop(IF c \in DOMAIN cmapping THEN st2 ELSE st, Tail(cs), cmapping, a, mag)

BuildArgs(lmap, nprefix, cprefix, dprefix, tdbu, mapping, order) ==
  [lmap |-> lmap, nprefix |-> nprefix, cprefix |-> cprefix, dprefix |-> dprefix,
   tdbu |-> tdbu, mapping |-> mapping, order |-> order]

Built(op, net, a, st) ==
  [op |-> op, net |-> net, a |-> a, cells |-> st.cells, cmap |-> st.cmap, log |-> st.log]

BuildUnchanged ==
  UNCHANGED <<m_netlist_extracted, mp_netlist, m_net_clusters, dss_layers, m_named_regions,
              m_name_of_layer, m_dlrefs, m_conn, layout, pr>>

\* build_net (net, target, target_cell, lmap, cell_name_prefix, device_cell_name_prefix)
build_net(net, a) ==
  IF ~m_netlist_extracted THEN Throw("build_net", "NotExtracted")
  ELSE IF net.cell = 0 THEN Throw("build_net", "Assertion")
  ELSE /\ layout.dbu % a.tdbu = 0
       /\ bd' = Built("build_net", net, a,
                      build_net_rec(TargetOne, net.cell, net.cid, 1, a, NullPrefix,
                                    MagTrans(layout.dbu \div a.tdbu)))
       /\ last' = Result("build_net", "none")
       /\ BuildUnchanged

\* build_all_nets (cmap, target, lmap, net_cell_name_prefix, circuit_cell_name_prefix,
\*                 device_cell_name_prefix)
build_all_nets(a) ==
  IF ~m_netlist_extracted THEN Throw("build_all_nets", "NotExtracted")
  ELSE IF mp_netlist = NoNetlist
  THEN \* netlist->begin_circuits () on a null pointer
       \E e \in {"Crash", "none"} : Throw("build_all_nets", e)
  ELSE /\ layout.dbu % a.tdbu = 0
       /\ LET mag == layout.dbu \div a.tdbu
              cs == IF a.order = "asc" THEN SortedSeq(mp_netlist.circuits)
                    ELSE Reverse(SortedSeq(mp_netlist.circuits))
              st0 == IF a.mapping = "all" THEN TargetAll(layout, mag) ELSE TargetOne
          IN  bd' = Built("build_all_nets", NoNet, a,
                          circuits_loop(st0, cs, CellMapping(a.mapping, layout), a, mag))
       /\ last' = Result("build_all_nets", "none")
       /\ BuildUnchanged

----------------------------------------------------------------------------
(* The facade from construction on: an empty source layout, every call     *)
(* with every argument                                                     *)

EmptyMap == [x \in {} |-> 0]

MaxPoint == 38

ProbePoints == 0 .. MaxPoint

Init ==
  /\ m_netlist_extracted = FALSE
  /\ mp_netlist = NoNetlist
  /\ m_net_clusters = NoClusters(EmptyLayout)
  /\ dss_layers = 0
  /\ m_named_regions = EmptyMap
  /\ m_name_of_layer = EmptyMap
  /\ m_dlrefs = {}
  /\ m_conn = EmptyConn
  /\ layout = EmptyLayout
  /\ last = Result("new", "none")
  /\ pr = PrIdle
  /\ bd = BdIdle

NetArgs == {NoNet} \cup (IF mp_netlist = NoNetlist THEN {} ELSE {[cell |-> n.cell, cid |-> n.cid] : n \in mp_netlist.nets})

FacadeArgs ==
  BuildArgs({[tl |-> 11, region |-> 1]}, NullPrefix, <<"C$">>, <<"D$">>, 1, "top", "asc")

Next ==
  \/ \E kind \in MakeKinds, n \in LayerNames \cup {""} : make_layer(kind, n)
  \/ \E r \in Regions, n \in LayerNames : register_layer(r, n)
  \/ \E l \in Regions : connect(l)
  \/ \E a, b \in Regions : connect2(a, b)
  \/ \E l \in Regions, gn \in GlobalNames : connect_global(l, gn)
  \/ \E gn \in GlobalNames : global_net_id(gn)
  \/ extract_devices
  \/ extract_netlist
  \/ set_netlist_extracted
  \/ make_netlist
  \/ \E r \in Regions : probe_net(r, 0)
  \/ \E net \in NetArgs : build_net(net, FacadeArgs)
  \/ build_all_nets(FacadeArgs)

Spec == Init /\ [][Next]_vars

----------------------------------------------------------------------------
(* Properties of the facade *)

PreExtractionCalls == {"connect", "connect2", "connect_global", "extract_devices", "extract_netlist"}

PostExtractionCalls == {"build_net", "build_all_nets", "probe_net"}

\* C1: the phase is one-way and guarded. Once m_netlist_extracted is set (by a
\* successful extract_netlist or by set_netlist_extracted) it stays set, every later
\* connect, connect (a, b), connect_global, extract_devices and extract_netlist ends
\* with the "already extracted" error, and build_net, build_all_nets and probe_net
\* called while it is not set end with the "not extracted yet" error.
C1_PhaseOneWay ==
  [][ /\ (m_netlist_extracted => m_netlist_extracted')
      /\ (last'.op \in {"extract_netlist", "set_netlist_extracted"} /\ last'.err = "none"
            => m_netlist_extracted')
      /\ (m_netlist_extracted /\ last'.op \in PreExtractionCalls
            => last'.err = "AlreadyExtracted")
      /\ (~m_netlist_extracted /\ last'.op \in PostExtractionCalls
            => last'.err = "NotExtracted")
    ]_vars

\* a connect is refused after the extraction
C1_Witness ==
  m_netlist_extracted /\ last.op = "connect2" /\ last.err = "AlreadyExtracted"

\* C2: after the netlist extraction no call changes the global-net table of the
\* connectivity or the named-layer registry.
C2_FrozenAfterExtraction ==
  [][ m_netlist_extracted =>
        /\ m_conn'.global_nets = m_conn.global_nets
        /\ m_named_regions' = m_named_regions
        /\ m_name_of_layer' = m_name_of_layer ]_vars

LayerNamed(l) == l \in DOMAIN m_name_of_layer /\ m_name_of_layer[l] \in DOMAIN m_named_regions

ValidForConnect(r) == r # FlatRegion /\ r \in DOMAIN m_name_of_layer

ConnectedLayersPersisted ==
  \A l \in ConnLayers(m_conn) \cup m_dlrefs : LayerNamed(l)

\* C3: every layer in the connectivity or in the reference-holding set is persisted
\* (has a registered name); connect, connect (a, b) and connect_global refuse a
\* region that is not deep or not persisted (connect (a, b) also for the second
\* region alone), a refused call leaves connectivity and reference-holding set as
\* they were, and no call takes the name of a layer away.
C3_ConnectedArePersisted ==
  [][ /\ ConnectedLayersPersisted /\ ConnectedLayersPersisted'
      /\ \A a, b \in Regions :
            /\ connect(a) /\ ~ValidForConnect(a)
                 => last'.err # "none" /\ UNCHANGED <<m_conn, m_dlrefs>>
            /\ connect2(a, b) /\ ~(ValidForConnect(a) /\ ValidForConnect(b))
                 => last'.err # "none" /\ UNCHANGED <<m_conn, m_dlrefs>>
            /\ \A gn \in GlobalNames : connect_global(a, gn) /\ ~ValidForConnect(a)
                 => last'.err # "none" /\ UNCHANGED <<m_conn, m_dlrefs>>
      /\ (last'.op \in {"connect", "connect2", "connect_global"} /\ last'.err # "none"
            => UNCHANGED <<m_conn, m_dlrefs>>)
      /\ DOMAIN m_name_of_layer \subseteq DOMAIN m_name_of_layer'
    ]_vars

\* connect (a, b) was refused for a region without name while layers are connected
C3_Witness ==
  /\ last.op = "connect2" /\ last.err = "NotPersisted"
  /\ m_conn.pairs # {} /\ m_dlrefs # {}
  /\ \E l \in 1 .. dss_layers : l \notin DOMAIN m_name_of_layer

RegistryOneToOne ==
  /\ \A n \in DOMAIN m_named_regions :
        /\ m_named_regions[n] \in DOMAIN m_name_of_layer
        /\ m_name_of_layer[m_named_regions[n]] = n
  /\ \A l \in DOMAIN m_name_of_layer :
        /\ m_name_of_layer[l] \in DOMAIN m_named_regions
        /\ m_named_regions[m_name_of_layer[l]] = l

\* C4: the name -> layer and the layer -> name map are inverses of each other
\* after any calls of register_layer. A name in use is refused with the duplicate
\* name error and both maps stay; a new name for a region that has one takes the
\* old name out: the old name finds no layer, the layer has the new name and
\* the new name finds the layer.
C4_RegistryOneToOne ==
  [][ /\ RegistryOneToOne /\ RegistryOneToOne'
      /\ \A r \in Regions, n \in LayerNames :
           register_layer(r, n) =>
             /\ (n \in DOMAIN m_named_regions
                   => /\ last'.err = "DuplicateName"
                      /\ UNCHANGED <<m_named_regions, m_name_of_layer>>)
             /\ (last'.err = "none"
                   => /\ (layer_by_name(n))' = r
                      /\ (name_of_layer(r))' = n
                      /\ (r \in DOMAIN m_name_of_layer
                            => m_name_of_layer[r] \notin DOMAIN m_named_regions'))
    ]_vars

\* a region was renamed: its previous name finds no layer any more
C4_Witness ==
  /\ last.op = "register_layer" /\ last.err = "none" /\ last.prev # ""
  /\ layer_by_name(last.prev) = 0
  /\ m_named_regions # EmptyMap

\* C8: probe_net after the extraction on a deep region whose layer is not
\* persisted ends with an error: a probe_net that returned was on a persisted layer.
C8_ProbeNeedsPersistedLayer ==
  (last.op = "probe_net" /\ last.err = "none") => pr.layer \in DOMAIN m_name_of_layer

----------------------------------------------------------------------------
(* Extraction runs on a layout with hierarchy: TOP (1) holds one or two     *)
(* instances of A (2), A holds an instance of B (3) and, with devices, of   *)
(* the device abstract D (4). Layer 1 is registered as "A", layer 2 as "B". *)

TopCell == 1

CellA == 2

CellB == 3

CellD == 4

\* second: a second instance of A; mirror: it is mirrored; wire2: a TOP wire to it;
\* t2: a TOP wire to the device of the first instance; dev: A holds a device;
\* via: the first wire of A is on layer 2, so its cluster has no shape on layer 1;
\* dm2: the shape of the device is on layer 2
LayoutFlags ==
  {[second |-> FALSE, mirror |-> FALSE, wire2 |-> FALSE, t2 |-> FALSE, dev |-> FALSE, dbu |-> 1, via |-> FALSE, dm2 |-> FALSE],
   [second |-> TRUE,  mirror |-> FALSE, wire2 |-> FALSE, t2 |-> FALSE, dev |-> TRUE,  dbu |-> 1, via |-> FALSE, dm2 |-> FALSE],
   [second |-> TRUE,  mirror |-> FALSE, wire2 |-> TRUE,  t2 |-> FALSE, dev |-> TRUE,  dbu |-> 1, via |-> FALSE, dm2 |-> FALSE],
   [second |-> TRUE,  mirror |-> FALSE, wire2 |-> TRUE,  t2 |-> TRUE,  dev |-> TRUE,  dbu |-> 1, via |-> FALSE, dm2 |-> FALSE],
   [second |-> TRUE,  mirror |-> TRUE,  wire2 |-> TRUE,  t2 |-> TRUE,  dev |-> TRUE,  dbu |-> 1, via |-> FALSE, dm2 |-> FALSE],
   [second |-> TRUE,  mirror |-> FALSE, wire2 |-> FALSE, t2 |-> TRUE,  dev |-> TRUE,  dbu |-> 2, via |-> FALSE, dm2 |-> FALSE],
   [second |-> TRUE,  mirror |-> TRUE,  wire2 |-> TRUE,  t2 |-> FALSE, dev |-> FALSE, dbu |-> 2, via |-> FALSE, dm2 |-> FALSE],
   [second |-> FALSE, mirror |-> FALSE, wire2 |-> FALSE, t2 |-> TRUE,  dev |-> TRUE,  dbu |-> 2, via |-> FALSE, dm2 |-> FALSE],
   [second |-> TRUE,  mirror |-> FALSE, wire2 |-> FALSE, t2 |-> FALSE, dev |-> TRUE,  dbu |-> 1, via |-> TRUE, dm2 |-> TRUE]}

CellShape(cell, layer, lo, hi) == [cell |-> cell, layer |-> layer, lo |-> lo, hi |-> hi]

CellInst(id, parent, cell, t) == [id |-> id, parent |-> parent, cell |-> cell, t |-> t]

LayoutOf(f) ==
  [ncells |-> 4, top |-> TopCell, dbu |-> f.dbu, devices |-> {CellD},
   shapes |->
     {CellShape(CellB, 1, 0, 2),
      CellShape(CellA, IF f.via THEN 2 ELSE 1, 0, 4), CellShape(CellA, 2, 1, 2),
      CellShape(CellA, 1, 8, 10),
      CellShape(TopCell, 1, 2, 5), CellShape(TopCell, 2, 3, 4)}
     \cup (IF f.dev THEN {CellShape(CellD, IF f.dm2 THEN 2 ELSE 1, 0, 1)} ELSE {})
     \cup (IF f.t2 THEN {CellShape(TopCell, 1, 16, 18)} ELSE {})
     \cup (IF f.wire2 THEN {CellShape(TopCell, 1, 22, 25)} ELSE {}),
   insts |->
     {CellInst(1, TopCell, CellA, Trans(1, 5, 1)), CellInst(3, CellA, CellB, Trans(1, 3, 1))}
     \cup (IF f.dev THEN {CellInst(4, CellA, CellD, Trans(1, 10, 1))} ELSE {})
     \cup (IF f.second
           THEN {CellInst(2, TopCell, CellA,
                          IF f.mirror THEN Trans(-1, 36, 1) ELSE Trans(1, 25, 1))}
           ELSE {})]

Layouts == {LayoutOf(f) : f \in LayoutFlags}

\* the connectivity after connect (1); after connect (1), connect (2), connect (1, 2);
\* after connect (1, 2); after connect (1), connect (1, 2)
ConnChoices ==
  {conn_connect(EmptyConn, 1, 1),
   conn_connect(conn_connect(conn_connect(EmptyConn, 1, 1), 2, 2), 1, 2),
   conn_connect(EmptyConn, 1, 2),
   conn_connect(conn_connect(EmptyConn, 1, 1), 1, 2)}

\* the state after make_layer (.., "A"), make_layer (.., "B") and the connect calls
HInit ==
  /\ m_netlist_extracted = FALSE
  /\ mp_netlist = NoNetlist
  /\ layout \in Layouts
  /\ m_net_clusters = NoClusters(layout)
  /\ dss_layers = 2
  /\ m_named_regions = MapPut(MapPut(EmptyMap, "A", 1), "B", 2)
  /\ m_name_of_layer = MapPut(MapPut(EmptyMap, 1, "A"), 2, "B")
  /\ m_conn \in ConnChoices
  /\ m_dlrefs = ConnLayers(m_conn)
  /\ last = Result("new", "none")
  /\ pr = PrIdle
  /\ bd = BdIdle

\* the calls are sequential: none starts while probe_net is in its loop
ProbeNext ==
  \/ pr.pc # "climb" /\ extract_netlist
  \/ \E r \in 1 .. dss_layers, p \in ProbePoints : probe_net(r, p)
  \/ probe_climb
  \/ probe_return

ProbeSpec == HInit /\ [][ProbeNext]_vars

\* target layers: source layer + 10; the third map has a null region, the fourth
\* maps layer 2 only
LayerMaps ==
  {{[tl |-> 11, region |-> 1]},
   {[tl |-> 11, region |-> 1], [tl |-> 12, region |-> 2]},
   {[tl |-> 11, region |-> 1], [tl |-> 12, region |-> NullRegion]},
   {[tl |-> 12, region |-> 2]}}

\* database units of the target layout
TargetDbus == {1, 2}

BuildNetArgs ==
  {BuildArgs(lmap, NullPrefix, cprefix, dprefix, tdbu, "top", "asc") :
     lmap \in LayerMaps, cprefix \in {NullPrefix, <<"C$">>},
     dprefix \in {NullPrefix, <<"D$">>}, tdbu \in TargetDbus}

BuildAllArgs ==
  {BuildArgs(lmap, nprefix, cprefix, dprefix, tdbu, mapping, order) :
     lmap \in LayerMaps, nprefix \in {NullPrefix, <<"N$">>},
     cprefix \in {NullPrefix, <<"C$">>}, dprefix \in {NullPrefix, <<"D$">>},
     tdbu \in TargetDbus, mapping \in {"all", "top"}, order \in {"asc", "desc"}}

\* every run builds into one fresh target layout
BuildNext ==
  \/ extract_netlist
  \/ bd = BdIdle /\ \E net \in NetArgs, a \in BuildNetArgs : build_net(net, a)
  \/ bd = BdIdle /\ \E a \in BuildAllArgs : build_all_nets(a)

BuildSpec == HInit /\ [][BuildNext]_vars

----------------------------------------------------------------------------
(* Properties of net probing *)

\* all shapes of the layout below cell c, in the coordinates of c after t
RECURSIVE LayoutFlat(_, _, _)
LayoutFlat(L, c, t) ==
  TransShapes(t, LocalShapes(L, c))
  \cup UNION {LayoutFlat(L, i.cell, MulT(t, i.t)) : i \in InstsOf(L, c)}

\* the transformation of an instance path into its first cell
RECURSIVE PathTrans(_, _)
PathTrans(L, path) ==
  IF path = <<>> THEN UnitTrans
  ELSE MulT(InstById(L, Head(path)).t, PathTrans(L, Tail(path)))

ProbeReturned == pr.pc = "done" /\ last.op = "probe_net" /\ last.err = "none"

\* the shapes of the returned net on the probed layer, in TOP coordinates
ResultShapes ==
  IF pr.result = NoNet THEN {}
  ELSE RecursiveShapes(m_net_clusters, pr.result.cell, pr.result.cid, pr.layer,
                       PathTrans(layout, pr.inst_path))

\* C6: probe round-trip. After the extraction, when the probed point is an interior
\* point of a shape on the probed layer (a layer of the connectivity), probe_net
\* returns a net, and that shape is one of the net's shapes.
C6_ProbeRoundTrip ==
  ProbeReturned /\ pr.layer \in ConnLayers(m_conn) =>
    \A s \in LayoutFlat(layout, layout.top, UnitTrans) :
       s.layer = pr.layer /\ s.lo < pr.point /\ pr.point < s.hi
         => pr.result # NoNet /\ s \in ResultShapes

\* the cell at the end of an instance path that starts in the top cell
EndCell(path) == IF path = <<>> THEN layout.top ELSE InstById(layout, Back(path)).cell

\* the subcircuit of the last path element carries a net on the first pin of the net
CarriesNet(circuit, net, path) ==
  /\ path # <<>>
  /\ pin_count(mp_netlist, circuit, net) > 0
  /\ \E sc \in mp_netlist.subcircuits :
        /\ sc.id = Back(path)
        /\ sc.pinnet[Head(net_by_cluster_id(mp_netlist, circuit, net).pins)] # 0

UpperNet(circuit, net, path) ==
  LET sc == CHOOSE x \in mp_netlist.subcircuits : x.id = Back(path)
  IN  [cell |-> sc.parent,
       cid |-> sc.pinnet[Head(net_by_cluster_id(mp_netlist, circuit, net).pins)]]

\* the outermost cluster on the path that the hit cluster is connected to
RECURSIVE HighestNet(_, _, _)
HighestNet(cell, cid, path) ==
  IF path = <<>> THEN [cell |-> cell, cid |-> cid]
  ELSE LET up == ParentClusterOf(m_net_clusters, InstById(layout, Back(path)), cid)
       IN  IF up = 0 THEN [cell |-> cell, cid |-> cid]
           ELSE HighestNet(InstById(layout, Back(path)).parent, up, PopBack(path))

\* C7: the climb of probe_net. In the loop the current circuit is the circuit of
\* the cell at the end of the remaining path; a round moves to the parent circuit and
\* its net on the pin exactly when the net has a pin, the path is not empty and the
\* subcircuit of the last path element carries a net on the net's first pin, and
\* returns the current net otherwise; every round shortens the path, so there are at
\* most path-length rounds; the net returned is the net of the outermost circuit on
\* the path that is connected to the hit cluster.
C7_ProbeClimbsToHighestNet ==
  [][ /\ (pr'.pc = "climb"
            => /\ pr'.circuit = (EndCell(pr.inst_path))'
               /\ Len(pr'.inst_path) <= Len(pr'.hit.path)
               /\ Len(pr'.cell_indexes) = Len(pr'.inst_path) + 1)
      /\ (pr.pc = "climb"
            => IF CarriesNet(pr.circuit, pr.net, pr.inst_path)
               THEN /\ pr'.pc = "climb"
                    /\ pr'.inst_path = PopBack(pr.inst_path)
                    /\ [cell |-> pr'.circuit, cid |-> pr'.net]
                         = UpperNet(pr.circuit, pr.net, pr.inst_path)
               ELSE /\ pr'.pc = "done"
                    /\ pr'.result = [cell |-> pr.circuit, cid |-> pr.net])
      /\ (pr'.pc = "done" /\ pr'.result # NoNet
            => pr'.result = (HighestNet(pr.hit.cell, pr.hit.cid, pr.hit.path))')
    ]_vars

\* a hit two levels down was carried up to a net of the top circuit
C7_Witness ==
  /\ ProbeReturned
  /\ Len(pr.hit.path) = 2
  /\ pr.inst_path = <<>>
  /\ pr.result.cell = layout.top
  /\ pr.result # [cell |-> pr.hit.cell, cid |-> pr.hit.cid]

----------------------------------------------------------------------------
(* Properties of the hierarchy rebuild *)

OnLayer(S, layer) == {Box(s.lo, s.hi) : s \in {x \in S : x.layer = layer}}

BuiltNet == bd.op = "build_net" /\ last.op = "build_net" /\ last.err = "none"

\* the target cell of build_net, flattened, on the target layer of l equals the
\* recursive shapes of the net on the source layer of l
FlatEquivalent(l) ==
  OnLayer(Flatten(bd.cells, 1, UnitTrans), l.tl)
    = OnLayer(shapes_of_net(bd.net, l.region, TRUE), layer_of(l.region))

\* C5 as stated: flat-equivalence of shapes_of_net (N, L, recursive) and the
\* flattened result of build_net (N, ..) on the target layer of L, with equal
\* database units, for every choice of the circuit and device cell name prefixes.
C5_FlatEquivalenceAnyPrefixes ==
  BuiltNet /\ bd.a.tdbu = layout.dbu =>
    \A l \in bd.a.lmap : l.region # NullRegion => FlatEquivalent(l)

\* C5 amended: the flat-equivalence holds when both a circuit and a device cell
\* name prefix are given, so that build_net makes a cell for every connected child.
C5_FlatEquivalence ==
  BuiltNet /\ bd.a.tdbu = layout.dbu
    /\ bd.a.cprefix # NullPrefix /\ bd.a.dprefix # NullPrefix =>
      \A l \in bd.a.lmap : l.region # NullRegion => FlatEquivalent(l)

\* build_net of a net with shapes two levels down, placed by two nested instances
C5_Witness ==
  /\ BuiltNet /\ bd.a.tdbu = layout.dbu
  /\ bd.a.cprefix # NullPrefix /\ bd.a.dprefix # NullPrefix
  /\ Len(bd.cells) >= 3
  /\ \E k \in DOMAIN bd.cells : \E i \in bd.cells[k].insts : k # 1 /\ i.t.d # 0
  /\ \E l \in bd.a.lmap :
        /\ l.region # NullRegion
        /\ Cardinality(OnLayer(Flatten(bd.cells, 1, UnitTrans), l.tl)) >= 3

BuiltAll == bd.op = "build_all_nets" /\ last.op = "build_all_nets" /\ last.err = "none"

\* the target cells made for source cell c under the prefix
CellsNamed(prefix, c) == {k \in DOMAIN bd.cells : bd.cells[k].name = prefix \o CellName(c)}

\* the entries of the cell map for source cell c
CmapOf(c) == {m \in bd.cmap : m.key.ci = c}

\* C9 as stated: with a circuit cell name prefix, build_all_nets makes at most one
\* prefixed circuit cell per source circuit, however many of its clusters are
\* connected.
C9_OneCellPerCircuit ==
  BuiltAll /\ bd.a.cprefix # NullPrefix =>
    \A c \in mp_netlist.circuits : Cardinality(CellsNamed(bd.a.cprefix, c)) <= 1

\* the target cell a call from build_all_nets delivers into: the net cell it made
\* or the cell it was given; NoCell when the empty net cell was left out
RootCell(e) ==
  IF e.ncn = NullPrefix THEN e.tc
  ELSE IF e.nc + 1 \in DOMAIN bd.cells /\ bd.cells[e.nc + 1].name = e.ncn \o NetName(e.ci, e.cid)
  THEN e.nc + 1
  ELSE NoCell

LogEntries == {bd.log[i] : i \in DOMAIN bd.log}

\* every connection of cluster (ci, cid) to a circuit is an instance, in target cell
\* t, of the one cell the cell map holds for the connected cluster
ConnectionsPlaced(ci, cid, t) ==
  \A c \in ClusterById(m_net_clusters, ci, cid).conns :
     c.cell \in mp_netlist.circuits =>
       \E m \in bd.cmap :
          /\ m.key = [ci |-> c.cell, cid |-> c.cid]
          /\ \E i \in bd.cells[t].insts : i.cell = m.tci

\* C9 amended: with a circuit cell name prefix, build_all_nets makes exactly one
\* prefixed circuit cell per pair (source circuit, cluster) that is reached through
\* net connections, however many nets or instances connect to the pair: the cell
\* map has one entry per pair, each entry of a circuit has its own cell named
\* prefix + cell name, there are no other cells of that name, and every connection
\* to the pair is placed as an instance of that one cell.
C9_OneCellPerCircuitCluster ==
  BuiltAll /\ bd.a.cprefix # NullPrefix =>
    /\ \A m \in bd.cmap : m.key.cid \in ClusterIds(m_net_clusters, m.key.ci)
    /\ \A m1, m2 \in bd.cmap :
          (m1.key = m2.key \/ (m1.tci = m2.tci /\ m1.tci # NoCell)) => m1 = m2
    /\ \A c \in mp_netlist.circuits :
          /\ Cardinality(CellsNamed(bd.a.cprefix, c)) = Cardinality(CmapOf(c))
          /\ \A m \in CmapOf(c) : m.tci \in CellsNamed(bd.a.cprefix, c)
    /\ \A m \in bd.cmap :
          m.tci # NoCell => ConnectionsPlaced(m.key.ci, m.key.cid, m.tci)
    /\ \A e \in LogEntries :
          RootCell(e) # NoCell => ConnectionsPlaced(e.ci, e.cid, RootCell(e))

\* two clusters of one circuit are connected from nets of the parent, one of them
\* from two nets through two instances: two circuit cells of the same name, three
\* instances of them
C9_Witness ==
  /\ BuiltAll /\ bd.a.cprefix # NullPrefix
  /\ \E c \in mp_netlist.circuits :
        /\ Cardinality(CellsNamed(bd.a.cprefix, c)) = 2
        /\ \E k \in CellsNamed(bd.a.cprefix, c) :
              Cardinality({e \in LogEntries :
                             \E i \in bd.cells[RootCell(e)].insts : i.cell = k}) >= 2

HasParent(c) == \E sc \in mp_netlist.subcircuits : sc.ref = c

\* the nets of non-top circuits that have a pin
LocalPinnedNets == {n \in mp_netlist.nets : HasParent(n.cell) /\ n.pins # <<>>}

\* the target cell that stands for the top cell of the source
TargetTop == CellMapping(bd.a.mapping, layout)[layout.top]

\* the shapes of the target below cell c, each with the instances it is reached by
RECURSIVE FlattenPaths(_, _, _, _)
FlattenPaths(cells, c, t, path) ==
  {[path |-> path, shape |-> TransShape(t, s)] : s \in cells[c].shapes}
  \cup UNION {FlattenPaths(cells, i.cell, MulT(t, i.t), Append(path, i)) : i \in cells[c].insts}

\* the shapes of the source layout below cell c, each with its instance path
RECURSIVE LayoutPaths(_, _, _, _)
LayoutPaths(L, c, t, path) ==
  {[path |-> path, shape |-> TransShape(t, s)] : s \in LocalShapes(L, c)}
  \cup UNION {LayoutPaths(L, i.cell, MulT(t, i.t), Append(path, i.id)) : i \in InstsOf(L, c)}

Occurrences(P, layer, lo, hi) ==
  Cardinality({e \in P : e.shape = Shape(layer, lo, hi)})

\* no shape is found more often in the target than in the source layout
NotEmittedTwice ==
  LET T == FlattenPaths(bd.cells, TargetTop, UnitTrans, <<>>)
      S == LayoutPaths(layout, layout.top, UnitTrans, <<>>)
  IN  \A l \in bd.a.lmap : l.region # NullRegion =>
        \A e \in T : e.shape.layer = l.tl =>
           Occurrences(T, l.tl, e.shape.lo, e.shape.hi)
             <= Occurrences(S, layer_of(l.region), e.shape.lo, e.shape.hi)

----------------------------------------------------------------------------
(* Net shape delivery: the netlist after the extraction may lose circuits     *)
(* (purged cells), the clusters keep the cells                                *)

\* db::Netlist::purge through netlist (): circuit c leaves the netlist with its
\* nets and with the subcircuits in it and of it
purge_circuit(c) ==
  /\ m_netlist_extracted /\ mp_netlist # NoNetlist
  /\ c \in mp_netlist.circuits /\ c # layout.top
  /\ mp_netlist' = [mp_netlist EXCEPT !.circuits = @ \ {c},
                                      !.nets = {n \in @ : n.cell # c},
                                      !.subcircuits = {x \in @ : x.parent # c /\ x.ref # c}]
  /\ last' = Result("purge", "none")
  /\ UNCHANGED <<m_netlist_extracted, m_net_clusters, dss_layers, m_named_regions,
                 m_name_of_layer, m_dlrefs, m_conn, layout, pr, bd>>

Delivered(nl, ci, cid, layer_id, tr, shapes) ==
  [op |-> "deliver", nl |-> nl, ci |-> ci, cid |-> cid, layer |-> layer_id, tr |-> tr,
   shapes |-> shapes]

\* deliver_shapes_of_net_nonrecursive (nl, clusters, ci, cid, layer_id, tr, to)
deliver_nonrecursive(nl, ci, cid, layer_id, tr) ==
  /\ m_netlist_extracted
  /\ cid \in ClusterIds(m_net_clusters, ci)
  /\ bd' = Delivered(nl, ci, cid, layer_id, tr,
                     deliver_shapes_of_net_nonrecursive(nl, m_net_clusters, ci, cid, layer_id, tr))
  /\ last' = Result("deliver", "none")
  /\ BuildUnchanged

\* the transformations given to the delivery: unity, a magnification, a mirror with
\* a displacement
DeliverTrans == {UnitTrans, MagTrans(2), Trans(-1, 7, 1)}

\* the netlist pointer build_net_rec and shapes_of_net pass, or none
DeliverNext ==
  \/ extract_netlist
  \/ \E c \in 1 .. layout.ncells : purge_circuit(c)
  \/ \E nl \in {NoNetlist, mp_netlist}, ci \in 1 .. layout.ncells, cid \in 1 .. 3,
        layer_id \in 1 .. dss_layers, tr \in DeliverTrans :
       deliver_nonrecursive(nl, ci, cid, layer_id, tr)

DeliverSpec == HInit /\ [][DeliverNext]_vars

IsDelivered == bd.op = "deliver" /\ last.op = "deliver"

\* the shapes of the cluster in ci and in the sub-cells that are reached from ci
\* through cells that are neither circuits nor device abstracts only
RECURSIVE OwnAndPurgedShapes(_, _, _, _, _, _)
OwnAndPurgedShapes(nl, cl, cell, cid, layer_id, t) ==
  LET k == ClusterById(cl, cell, cid)
  IN  TransShapes(t, {s \in k.shapes : s.layer = layer_id})
      \cup UNION {OwnAndPurgedShapes(nl, cl, c.cell, c.cid, layer_id, MulT(t, c.t)) :
                    c \in {x \in k.conns : ~IsCircuitOrDevice(nl, x.cell)}}

\* C11: the non-recursive delivery of cluster cid of cell ci on a layer emits the
\* shapes of the cluster in ci and the shapes of the connected clusters in sub-cells
\* reached through cells that are neither circuits nor device abstracts, no shape in
\* or below a sub-cell that is a circuit or a device abstract, only the shapes of ci
\* without a netlist; each shape transformed by the given transformation times the
\* path transformation from ci.
C11_NonRecursiveDelivery ==
  IsDelivered =>
    bd.shapes = OwnAndPurgedShapes(bd.nl, m_net_clusters, bd.ci, bd.cid, bd.layer, bd.tr)

----------------------------------------------------------------------------
(* Properties of the net cells *)

\* the calls of build_net_rec from build_all_nets that were given a net cell name
NetCellEntries == {e \in LogEntries : e.ncn # NullPrefix}

HasMappedShapes(e) == DeliveredShapes(e.ci, e.cid, bd.a.lmap, e.tr) # {}

HasConnections(e) == ClusterById(m_net_clusters, e.ci, e.cid).conns # {}

\* the instances of the net cell of call e in the cell the call was given
NetCellInsts(e) == {i \in bd.cells[e.tc].insts : i.cell = RootCell(e)}

\* C12: with a net cell name prefix no net cell is made exactly when the net has
\* no shape on a mapped layer and no connection to a child cluster; a net with a
\* shape on a mapped layer or with a connection gets its net cell, instanced once
\* in the target cell, whatever circuit and device cell name prefixes are given.
C12_NetCellElision ==
  BuiltAll =>
    \A e \in NetCellEntries :
       /\ RootCell(e) = NoCell <=> ~HasMappedShapes(e) /\ ~HasConnections(e)
       /\ RootCell(e) # NoCell => Cardinality(NetCellInsts(e)) = 1

\* what build_net_rec does: the connections count with a circuit cell name prefix only
NetCellElisionWithCircuitPrefix ==
  BuiltAll =>
    \A e \in NetCellEntries :
       /\ RootCell(e) = NoCell <=>
            ~HasMappedShapes(e) /\ ~(bd.a.cprefix # NullPrefix /\ HasConnections(e))
       /\ RootCell(e) # NoCell => Cardinality(NetCellInsts(e)) = 1

----------------------------------------------------------------------------
(* Dangling pins: the netlist handed out by netlist () gets further pins on  *)
(* nets of circuits; no net of a parent circuit is connected to them          *)

MaxPins == 3

\* db::Circuit::add_pin and connect_pin through netlist (): one more pin on net
\* (c, cid); the subcircuits of c have no net on the new pin
connect_pin(c, cid) ==
  /\ m_netlist_extracted /\ mp_netlist # NoNetlist /\ bd = BdIdle
  /\ NetsOf(mp_netlist, c, cid) # {}
  /\ ~is_top_circuit(mp_netlist, c)
  /\ Cardinality(PinsOf(mp_netlist, c)) < MaxPins
  /\ LET n == net_by_cluster_id(mp_netlist, c, cid)
         id == Cardinality(PinsOf(mp_netlist, c))
     IN  mp_netlist' =
           [mp_netlist EXCEPT
              !.nets = (@ \ {n}) \cup {[n EXCEPT !.pins = Append(@, id)]},
              !.subcircuits =
                 {IF x.ref = c
                  THEN [x EXCEPT !.pinnet = [q \in DOMAIN @ \cup {id} |->
                                               IF q \in DOMAIN @ THEN @[q] ELSE 0]]
                  ELSE x : x \in @}]
  /\ last' = Result("connect_pin", "none")
  /\ UNCHANGED <<m_netlist_extracted, m_net_clusters, dss_layers, m_named_regions,
                 m_name_of_layer, m_dlrefs, m_conn, layout, pr, bd>>

PinBuildArgs ==
  {BuildArgs(lmap, nprefix, cprefix, <<"D$">>, tdbu, "all", "asc") :
     lmap \in {{[tl |-> 11, region |-> 1]}, {[tl |-> 11, region |-> 1], [tl |-> 12, region |-> 2]}},
     nprefix \in {NullPrefix, <<"N$">>}, cprefix \in {NullPrefix, <<"C$">>},
     tdbu \in TargetDbus}

PinBuildNext ==
  \/ bd = BdIdle /\ extract_netlist
  \/ \E c \in 1 .. layout.ncells, cid \in 1 .. 3 : connect_pin(c, cid)
  \/ bd = BdIdle /\ \E a \in PinBuildArgs : build_all_nets(a)

PinBuildSpec == HInit /\ [][PinBuildNext]_vars

\* the pins of subcircuit sc on net n of its circuit that no net of the calling
\* circuit is connected to
DanglingPins(sc, n) ==
  {n.pins[i] : i \in {j \in 1 .. Len(n.pins) : sc.pinnet[n.pins[j]] = 0}}

\* the calls of build_net_rec made for net n by the dangling-pin rule for sc
PinEntries(sc, n) ==
  {i \in DOMAIN bd.log :
     /\ bd.log[i].via = "pin" /\ bd.log[i].sc = sc.id
     /\ bd.log[i].ci = n.cell /\ bd.log[i].cid = n.cid}

\* call e has put the net into cell tc: through its net cell, or directly
RenderedInto(e, tc) ==
  IF e.ncn = NullPrefix
  THEN DeliveredShapes(e.ci, e.cid, bd.a.lmap, e.tr) \subseteq bd.cells[tc].shapes
  ELSE RootCell(e) # NoCell =>
         /\ \E i \in bd.cells[tc].insts : i.cell = RootCell(e)
         /\ DeliveredShapes(e.ci, e.cid, bd.a.lmap, e.tr) \subseteq bd.cells[RootCell(e)].shapes

\* C13: build_all_nets with a circuit cell name prefix renders, for every pin of
\* a subcircuit without a net on the parent side and with a net on the child side,
\* the child net into the target cell of the calling circuit, with the net cell name
\* prefix + subcircuit name + ":" when a net cell name prefix is given: once per
\* such pin, so k times for a net with k dangling pins of one subcircuit, and not
\* at all for pins that have a net on the parent side.
C13_DanglingPinRendering ==
  BuiltAll /\ bd.a.cprefix # NullPrefix =>
    \A sc \in mp_netlist.subcircuits :
       sc.parent \in DOMAIN CellMapping(bd.a.mapping, layout) =>
         \A n \in {x \in mp_netlist.nets : x.cell = sc.ref} :
            /\ Cardinality(PinEntries(sc, n)) = Cardinality(DanglingPins(sc, n))
            /\ \A i \in PinEntries(sc, n) :
                  /\ bd.log[i].tc = CellMapping(bd.a.mapping, layout)[sc.parent]
                  /\ bd.log[i].ncn = (IF bd.a.nprefix # NullPrefix
                                      THEN bd.a.nprefix \o SubcircuitName(sc) ELSE NullPrefix)
                  /\ RenderedInto(bd.log[i], bd.log[i].tc)

\* a net with two dangling pins of one subcircuit was rendered twice, each time
\* with a net cell of its own, next to a pin with a net on the parent side
C13_Witness ==
  /\ BuiltAll /\ bd.a.cprefix # NullPrefix /\ bd.a.nprefix # NullPrefix
  /\ \E sc \in mp_netlist.subcircuits :
        /\ \E n \in mp_netlist.nets :
              /\ n.cell = sc.ref /\ Cardinality(DanglingPins(sc, n)) = 2
              /\ Cardinality({RootCell(bd.log[i]) : i \in PinEntries(sc, n)} \ {NoCell}) = 2
        /\ \E p \in DOMAIN sc.pinnet : sc.pinnet[p] # 0

----------------------------------------------------------------------------
(* Properties of the instances in the target *)

\* M = dbu_source / dbu_target of the last build
Mag == layout.dbu \div bd.a.tdbu

\* the instance for connection c below a call with transformation tr: rotation and
\* mirror of tr and c, the displacement times M, no magnification
ConnInst(tci, tr, c) ==
  [cell |-> tci, t |-> Trans(tr.r * c.t.r, Mag * (tr.r * c.t.d + tr.d), 1)]

\* the instances for the connections of cluster (ci, cid) that have a target cell
ExpectedInsts(ci, cid, tr) ==
  UNION {{ConnInst(m.tci, tr, c) :
            m \in {x \in bd.cmap : x.key = [ci |-> c.cell, cid |-> c.cid] /\ x.tci # NoCell}} :
         c \in ClusterById(m_net_clusters, ci, cid).conns}

AllInsts == UNION {bd.cells[k].insts : k \in DOMAIN bd.cells}

----------------------------------------------------------------------------
(* Properties of the placement of dangling-pin nets *)

\* the placement of a subcircuit in database units of the source layout
InSourceDbu(S) == Trans(S.r, S.d \div layout.dbu, 1)

\* the shapes of the net of call e at M * (S applied to p), on the target layers
PlacedShapes(e) ==
  DeliveredShapes(e.ci, e.cid, bd.a.lmap,
                  MulT(MagTrans(Mag), InSourceDbu(SubcircuitById(mp_netlist, e.sc).trans)))

\* C15: a child net that build_all_nets renders for a dangling pin has each of its
\* shapes at the target coordinate M * (S applied to p), p the coordinate in the
\* child cell, S the placement of the subcircuit in source database units and
\* M = dbu_source / dbu_target: the displacement of the placement is scaled by M
\* once, for equal and for different database units.
C15_DanglingPinPlacement ==
  BuiltAll =>
    \A e \in LogEntries :
       e.via = "pin" /\ RootCell(e) # NoCell =>
         PlacedShapes(e) \subseteq bd.cells[RootCell(e)].shapes

====
